---- MODULE Spec2Model ----
(***************************************************************************)
(* Model of the core of src/cli.py: the metadata parser                   *)
(* (parse_package_dependencies), the depth-bounded dependency traversal   *)
(* (get_transitive_dependencies / bfs_dependencies_recursive) and the     *)
(* cycle detector (detect_cycles).                                        *)
(*                                                                         *)
(* Package names, filter substrings and text lines are sequences of       *)
(* one-character strings, so that Python's `in`, startswith, split and    *)
(* strip are computed rather than assumed.  The recursive functions are    *)
(* run on an explicit stack of call frames.                                *)
(***************************************************************************)
EXTENDS Integers, Sequences, FiniteSets, TLC

VARIABLES
    graph,            \* the dependency graph: package name -> list of names
    start_package,    \* root of the traversal
    max_depth,        \* depth bound of the traversal
    filter_substring, \* exclusion substring ("" = <<>> means no filter)
    visited,          \* the visited set (traversal, or cycle detection)
    result,           \* traversal result: name -> depth
    stack,            \* call frames of the running recursion, innermost first
    writes,           \* history: every assignment result[name] = depth, in order
    pc,               \* position of the running function
    order,            \* iteration order of the keys of graph (dict order)
    k,                \* index into order of the outer loop of detect_cycles
    rec_stack,        \* names on the recursion stack of dfs
    path,             \* current path of dfs
    cycles,           \* set of cycles found
    block,            \* raw text of one metadata block
    lines,            \* block.split('\n')
    li,               \* index of the next line of the for loop
    package_info      \* the dict built by parse_package_dependencies

vars == << graph, start_package, max_depth, filter_substring, visited, result,
           stack, writes, pc, order, k, rec_stack, path, cycles, block, lines,
           li, package_info >>

closureVars == << start_package, max_depth, filter_substring, result, writes >>
cycleVars == << order, k, rec_stack, path, cycles >>
parseVars == << block, lines, li, package_info >>

-----------------------------------------------------------------------------
(* Bounds of the model *)

\* longest dependency list of a package
MaxDeps == 2
\* most dependency edges of a graph over the three small names
MaxEdges == 4
\* most dependency edges of a layered graph
ChainEdges == 5
\* largest depth bound handed to the traversal
MaxDepth == 3
\* how far down the chain a package of the layered graphs may depend
Window == 2
\* most lines of a metadata block
MaxLines == 3

-----------------------------------------------------------------------------
(* Strings as sequences of characters *)

\* Python: sub == s[i : i + len(sub)]
MatchAt(sub, s, i) ==
    /\ i + Len(sub) - 1 <= Len(s)
    /\ \A j \in 1..Len(sub) : s[i + j - 1] = sub[j]

\* Python: sub in s
Contains(sub, s) == \E i \in 1..(Len(s) + 1) : MatchAt(sub, s, i)

\* Python: s.startswith(prefix)
StartsWith(s, prefix) == MatchAt(prefix, s, 1)

EmptyMap == [n \in {} |-> 0]

-----------------------------------------------------------------------------
(* Input graphs *)

\* every dependency list of at most MaxDeps names of S, duplicates allowed
DepLists(S) == UNION { [1..n -> S] : n \in 0..MaxDeps }

\* the names "a", "b", "ab"
SmallNames == { <<"a">>, <<"b">>, <<"a", "b">> }

\* the number of dependency edges of the graph g over the names S
RECURSIVE EdgesOver(_, _)
EdgesOver(g, S) ==
    IF S = {} THEN 0
    ELSE LET n == CHOOSE x \in S : TRUE
         IN  Len(g[n]) + EdgesOver(g, S \ {n})

Edges(g) == EdgesOver(g, DOMAIN g)

\* every graph over SmallNames of at most MaxEdges edges: any set of known
\* packages, any dependency lists
SmallGraphs ==
    { g \in UNION { [K -> DepLists(SmallNames)] : K \in SUBSET SmallNames } :
        Edges(g) <= MaxEdges }

\* the names "r", "a", "ab", "c", "d"
Chain == << <<"r">>, <<"a">>, <<"a", "b">>, <<"c">>, <<"d">> >>

ChainNames == { Chain[i] : i \in 1..Len(Chain) }

\* the names at most Window places further down the chain than place i
Below(i) == { Chain[j] : j \in { m \in 1..Len(Chain) : i < m /\ m <= i + Window } }

ChainGraph(d, lastKnown) ==
    [ n \in { Chain[i] : i \in 1..(IF lastKnown THEN 5 ELSE 4) } |->
        IF n = Chain[1] THEN d[1]
        ELSE IF n = Chain[2] THEN d[2]
        ELSE IF n = Chain[3] THEN d[3]
        ELSE IF n = Chain[4] THEN d[4]
        ELSE << >> ]

\* layered graphs of at most ChainEdges edges: "r", "a", "ab", "c" are known and
\* each depends only on names further down the chain; "d" is a known package
\* without dependencies or unknown
ChainGraphs ==
    { g \in { ChainGraph(<<d1, d2, d3, d4>>, lastKnown) :
                d1 \in DepLists(Below(1)), d2 \in DepLists(Below(2)),
                d3 \in DepLists(Below(3)), d4 \in DepLists(Below(4)),
                lastKnown \in BOOLEAN } :
        Edges(g) <= ChainEdges }

Filters == { << >>, <<"a">>, <<"a", "b">> }

-----------------------------------------------------------------------------
(* get_transitive_dependencies and bfs_dependencies_recursive *)

\* a call bfs_dependencies_recursive(graph, node, max_depth, depth, ...);
\* i = 0: at its first line; i >= 1: about to examine graph[node][i]
Frame(node, depth, i) == [node |-> node, depth |-> depth, i |-> i]

\* the filter test of lines 184 and 191: filter_substring and filter_substring in name
Filtered(name) == filter_substring # << >> /\ Contains(filter_substring, name)

\* line 191 without its filter test
ShouldRecord_NoFilter(dependency) == dependency \notin visited

\* line 191 without its visited test
ShouldRecord_NoVisited(dependency) == ~Filtered(dependency)

\* the condition of line 191
ShouldRecord(dependency) == dependency \notin visited /\ ~Filtered(dependency)

\* lines 175-188 without the filter test of line 184
Entry_NoFilter(f) ==
    IF f.depth > max_depth THEN "return"
    ELSE IF f.node \in visited THEN "return"
    ELSE IF f.node \notin DOMAIN graph THEN "mark"
    ELSE "expand"

\* lines 175-188 without the depth test of line 175
Entry_NoDepth(f) ==
    IF f.node \in visited THEN "return"
    ELSE IF Filtered(f.node) THEN "mark"
    ELSE IF f.node \notin DOMAIN graph THEN "mark"
    ELSE "expand"

\* what the call does between its first line and its for loop (lines 175-188):
\* "return", "mark" (added to visited, then return) or "expand" (added to
\* visited, then the for loop)
Entry(f) ==
    IF f.depth > max_depth THEN "return"
    ELSE IF f.node \in visited THEN "return"
    ELSE IF Filtered(f.node) THEN "mark"
    ELSE IF f.node \notin DOMAIN graph THEN "mark"
    ELSE "expand"

\* result[dependency] = current_depth
Record(dependency, depth) ==
    [ n \in DOMAIN result \cup {dependency} |->
        IF n = dependency THEN depth ELSE result[n] ]

\* the stack after the innermost call returned
Returned == Tail(stack)

AfterReturn == IF Returned = << >> THEN "done" ELSE "run"

ClosureInit ==
    /\ \/ /\ graph \in SmallGraphs
          /\ start_package \in SmallNames
          /\ max_depth \in 1..MaxDepth
       \/ /\ graph \in ChainGraphs
          /\ start_package = Chain[1]
          /\ max_depth = MaxDepth
    /\ filter_substring \in Filters
    /\ visited = {}
    /\ result = EmptyMap
    /\ stack = << >>
    /\ writes = << >>
    /\ pc = "call"
    /\ order = << >> /\ k = 0 /\ rec_stack = {} /\ path = << >> /\ cycles = {}
    /\ block = << >> /\ lines = << >> /\ li = 0 /\ package_info = EmptyMap

\* get_transitive_dependencies up to its call of the recursion (lines 199-205)
GetTransitiveDependencies ==
    /\ pc = "call"
    /\ IF start_package \notin DOMAIN graph
         THEN pc' = "done" /\ stack' = << >>
         ELSE pc' = "run" /\ stack' = << Frame(start_package, 1, 0) >>
    /\ result' = EmptyMap
    /\ visited' = {}
    /\ UNCHANGED << graph, start_package, max_depth, filter_substring, writes >>
    /\ UNCHANGED cycleVars /\ UNCHANGED parseVars

\* lines 175-188 of the innermost call
Enter ==
    /\ pc = "run"
    /\ stack # << >>
    /\ Head(stack).i = 0
    /\ LET f == Head(stack)
           e == Entry(f)
       IN  /\ visited' = IF e = "return" THEN visited ELSE visited \cup {f.node}
           /\ IF e = "expand"
                THEN /\ stack' = << Frame(f.node, f.depth, 1) >> \o Tail(stack)
                     /\ pc' = "run"
                ELSE /\ stack' = Returned
                     /\ pc' = AfterReturn
    /\ UNCHANGED << graph, start_package, max_depth, filter_substring, result, writes >>
    /\ UNCHANGED cycleVars /\ UNCHANGED parseVars

\* one iteration of the for loop of lines 190-194
Loop ==
    /\ pc = "run"
    /\ stack # << >>
    /\ Head(stack).i >= 1
    /\ Head(stack).i <= Len(graph[Head(stack).node])
    /\ LET f == Head(stack)
           dependency == graph[f.node][f.i]
           next == Frame(f.node, f.depth, f.i + 1)
       IN  IF ShouldRecord(dependency)
             THEN /\ result' = Record(dependency, f.depth)
                  /\ writes' = Append(writes, [name |-> dependency, depth |-> f.depth])
                  /\ stack' = << Frame(dependency, f.depth + 1, 0), next >> \o Tail(stack)
             ELSE /\ stack' = << next >> \o Tail(stack)
                  /\ UNCHANGED << result, writes >>
    /\ UNCHANGED << graph, start_package, max_depth, filter_substring, visited, pc >>
    /\ UNCHANGED cycleVars /\ UNCHANGED parseVars

\* the for loop is exhausted: the call returns
Return ==
    /\ pc = "run"
    /\ stack # << >>
    /\ Head(stack).i >= 1
    /\ Head(stack).i > Len(graph[Head(stack).node])
    /\ stack' = Returned
    /\ pc' = AfterReturn
    /\ UNCHANGED << graph, visited >>
    /\ UNCHANGED closureVars /\ UNCHANGED cycleVars /\ UNCHANGED parseVars

ClosureNext == GetTransitiveDependencies \/ Enter \/ Loop \/ Return

SpecClosure == ClosureInit /\ [][ClosureNext]_vars

-----------------------------------------------------------------------------
(* Properties of the traversal *)

Range(s) == { s[i] : i \in 1..Len(s) }

\* the direct dependencies of the known packages among S
Succ(S) == UNION { Range(graph[n]) : n \in S \cap DOMAIN graph }

\* the names at most d dependency edges away from the root
RECURSIVE Within(_)
Within(d) == IF d = 0 THEN {start_package}
             ELSE Within(d - 1) \cup Succ(Within(d - 1))

\* the names at the end of a dependency path of exactly d edges from the root
\* on which no name after the root contains the filter substring
RECURSIVE Exact(_)
Exact(d) == IF d = 0 THEN {start_package}
            ELSE { n \in Succ(Exact(d - 1)) : ~Filtered(n) }

\* the shortest distance of a name of Within(MaxDepth + 1) from the root
Dist(n) == CHOOSE d \in 0..(MaxDepth + 1) :
               /\ n \in Within(d)
               /\ \A e \in 0..(d - 1) : n \notin Within(e)

\* the packages whose for loop has been entered
Expanded == { n \in visited \cap DOMAIN graph : ~Filtered(n) }

\* the depth of the first assignment to result[n]
FirstDepth(n) ==
    writes[CHOOSE i \in 1..Len(writes) :
              /\ writes[i].name = n
              /\ \A j \in 1..(i - 1) : writes[j].name # n].depth

\* C1 (as claimed): with an empty filter and a known root, the returned mapping
\* holds every package other than the root at most max_depth edges from the root.
C1_AllWithinDepthIncluded ==
    (pc = "done" /\ start_package \in DOMAIN graph /\ filter_substring = << >>)
        => (Within(max_depth) \ {start_package}) \subseteq DOMAIN result

\* C2 (as claimed): first discovery wins: the depth held for a package is at
\* every point of the traversal the depth of its first recording.
C2_FirstDiscoveryWins ==
    \A n \in DOMAIN result : result[n] = FirstDepth(n)

\* C4 (as claimed): a known root whose name contains the filter substring is
\* still expanded: its unfiltered direct dependencies are returned at depth 1.
C4_RootExempt ==
    (pc = "done" /\ start_package \in DOMAIN graph /\ Filtered(start_package))
        => \A dep \in Range(graph[start_package]) :
              (~Filtered(dep) /\ dep # start_package)
                  => (dep \in DOMAIN result /\ result[dep] = 1)

\* C4 (amended): the root is not exempt from the filter: when the name of a
\* known root contains the non-empty filter substring, the root is marked
\* visited and nothing else happens: nothing is ever recorded and the returned
\* mapping is empty.
C4_FilteredRootYieldsNothing ==
    (start_package \in DOMAIN graph /\ Filtered(start_package))
        => /\ result = EmptyMap
           /\ writes = << >>
           /\ visited \subseteq {start_package}
           /\ pc = "done" => visited = {start_package}

C4_Witness ==
    /\ pc = "done"
    /\ start_package \in DOMAIN graph
    /\ Filtered(start_package)
    /\ \E dep \in Range(graph[start_package]) :
          ~Filtered(dep) /\ dep # start_package

\* C5: with a non-empty filter substring s, at every point of the traversal and
\* in the returned mapping no key of result contains s.
C5_NoFilteredKey ==
    filter_substring # << >>
        => \A n \in DOMAIN result : ~Contains(filter_substring, n)

C5_Witness ==
    /\ pc = "done"
    /\ filter_substring # << >>
    /\ result # EmptyMap
    /\ \E n \in Expanded : \E dep \in Range(graph[n]) :
          Contains(filter_substring, dep)

\* C6: the root is never a key of result, also when it lists itself as a
\* dependency or lies on a dependency cycle.
C6_RootNeverKey == start_package \notin DOMAIN result

C6_Witness ==
    /\ pc = "done"
    /\ \E n \in Expanded \cap DOMAIN result : start_package \in Range(graph[n])
    /\ start_package \in Range(graph[start_package])

\* C10: every entry name -> d of result has 1 <= d <= max_depth, is the end of
\* a dependency path of exactly d edges from the root none of whose names after
\* the root contains the filter substring, and d is at least the shortest
\* distance of the name from the root.
C10_DepthWitnessedByPath ==
    \A n \in DOMAIN result :
        /\ 1 <= result[n]
        /\ result[n] <= max_depth
        /\ n \in Exact(result[n])
        /\ n \in Within(result[n])
        /\ Dist(n) <= result[n]

C10_Witness ==
    /\ pc = "done"
    /\ filter_substring # << >>
    /\ \E n \in DOMAIN result : result[n] > Dist(n)
    /\ \E n \in DOMAIN result : result[n] = max_depth /\ max_depth >= 2

-----------------------------------------------------------------------------
(* detect_cycles *)

\* every order in which the keys of g can be iterated
Orders(g) ==
    { o \in [1..Cardinality(DOMAIN g) -> DOMAIN g] :
        \A i, j \in 1..Cardinality(DOMAIN g) : i # j => o[i] # o[j] }

\* a call dfs(node, ...) about to examine graph.get(node, [])[i]
DfsFrame(node, i) == [node |-> node, i |-> i]

\* graph.get(node, [])
Get(node) == IF node \in DOMAIN graph THEN graph[node] ELSE << >>

\* path.index(neighbor)
Index(s, x) == CHOOSE i \in 1..Len(s) : s[i] = x /\ \A j \in 1..(i - 1) : s[j] # x

\* the whole path taken instead of its suffix from the neighbor on
CycleFrom_WholePath(neighbor) == path

\* lines 225-226: path[path.index(neighbor):]
CycleFrom(neighbor) == SubSeq(path, Index(path, neighbor), Len(path))

\* lines 219-227 with a visited neighbor skipped before the rec_stack test
Classify_VisitedSkips(neighbor) ==
    IF neighbor \notin DOMAIN graph THEN "skip"
    ELSE IF neighbor \notin visited THEN "call"
    ELSE "skip"

\* lines 219-227: what dfs does with one neighbor
Classify(neighbor) ==
    IF neighbor \notin DOMAIN graph THEN "skip"
    ELSE IF neighbor \notin visited THEN "call"
    ELSE IF neighbor \in rec_stack THEN "cycle"
    ELSE "skip"

\* the outer loop starting a search from its first key only
StartsDfs_FirstOnly(node) == k = 1

\* line 236
StartsDfs(node) == node \notin visited

CyclesInit ==
    /\ graph \in SmallGraphs
    /\ order \in Orders(graph)
    /\ k = 1
    /\ visited = {}
    /\ cycles = {}
    /\ rec_stack = {}
    /\ path = << >>
    /\ stack = << >>
    /\ pc = "outer"
    /\ start_package = << >> /\ max_depth = 0 /\ filter_substring = << >>
    /\ result = EmptyMap /\ writes = << >>
    /\ block = << >> /\ lines = << >> /\ li = 0 /\ package_info = EmptyMap

\* one iteration of the loop of lines 235-237, up to the first statements of
\* the dfs it calls (lines 214-216)
OuterLoop ==
    /\ pc = "outer"
    /\ k <= Len(order)
    /\ k' = k + 1
    /\ LET node == order[k]
       IN  IF StartsDfs(node)
             THEN /\ visited' = visited \cup {node}
                  /\ rec_stack' = {node}
                  /\ path' = << node >>
                  /\ stack' = << DfsFrame(node, 1) >>
                  /\ pc' = "dfs"
             ELSE UNCHANGED << visited, rec_stack, path, stack, pc >>
    /\ UNCHANGED << graph, order, cycles >>
    /\ UNCHANGED closureVars /\ UNCHANGED parseVars

\* line 239
ReturnCycles ==
    /\ pc = "outer"
    /\ k > Len(order)
    /\ pc' = "done"
    /\ UNCHANGED << graph, visited, stack >>
    /\ UNCHANGED cycleVars /\ UNCHANGED closureVars /\ UNCHANGED parseVars

\* one iteration of the for loop of lines 218-227
DfsLoop ==
    /\ pc = "dfs"
    /\ Head(stack).i <= Len(Get(Head(stack).node))
    /\ LET f == Head(stack)
           neighbor == Get(f.node)[f.i]
           next == DfsFrame(f.node, f.i + 1)
           c == Classify(neighbor)
       IN  /\ IF c = "call"
                THEN /\ visited' = visited \cup {neighbor}
                     /\ rec_stack' = rec_stack \cup {neighbor}
                     /\ path' = Append(path, neighbor)
                     /\ stack' = << DfsFrame(neighbor, 1), next >> \o Tail(stack)
                ELSE /\ stack' = << next >> \o Tail(stack)
                     /\ UNCHANGED << visited, rec_stack, path >>
           /\ cycles' = IF c = "cycle" THEN cycles \cup {CycleFrom(neighbor)}
                        ELSE cycles
    /\ UNCHANGED << graph, order, k, pc >>
    /\ UNCHANGED closureVars /\ UNCHANGED parseVars

\* lines 229-230 and the return of dfs
DfsReturn ==
    /\ pc = "dfs"
    /\ Head(stack).i > Len(Get(Head(stack).node))
    /\ path' = SubSeq(path, 1, Len(path) - 1)
    /\ rec_stack' = rec_stack \ {Head(stack).node}
    /\ stack' = Tail(stack)
    /\ pc' = IF Tail(stack) = << >> THEN "outer" ELSE "dfs"
    /\ UNCHANGED << graph, visited, order, k, cycles >>
    /\ UNCHANGED closureVars /\ UNCHANGED parseVars

CyclesNext == OuterLoop \/ ReturnCycles \/ DfsLoop \/ DfsReturn

SpecCycles == CyclesInit /\ [][CyclesNext]_vars

-----------------------------------------------------------------------------
(* Properties of detect_cycles *)

\* c lists pairwise distinct known packages, each depending on the next and
\* the last on the first
IsElementaryCycle(c) ==
    /\ Len(c) >= 1
    /\ \A i \in 1..Len(c) : c[i] \in DOMAIN graph
    /\ \A i, j \in 1..Len(c) : i # j => c[i] # c[j]
    /\ \A i \in 1..(Len(c) - 1) : c[i + 1] \in Range(graph[c[i]])
    /\ c[1] \in Range(graph[c[Len(c)]])

\* every elementary cycle of the graph, from every starting point
ElementaryCycles ==
    { c \in UNION { [1..n -> DOMAIN graph] : n \in 1..Cardinality(DOMAIN graph) } :
        IsElementaryCycle(c) }

\* c started r places later
Rotate(c, r) == [ i \in 1..Len(c) |-> c[((i + r - 1) % Len(c)) + 1] ]

Rotations(c) == { Rotate(c, r) : r \in 0..(Len(c) - 1) }

\* the known packages reachable from n along at most d edges between known packages
RECURSIVE ReachFrom(_, _)
ReachFrom(n, d) == IF d = 0 THEN {n}
                   ELSE ReachFrom(n, d - 1)
                          \cup (Succ(ReachFrom(n, d - 1)) \cap DOMAIN graph)

\* the strongly connected component of the known package n
Component(n) ==
    { m \in DOMAIN graph :
        /\ m \in ReachFrom(n, Cardinality(DOMAIN graph))
        /\ n \in ReachFrom(m, Cardinality(DOMAIN graph)) }

\* C3 (as claimed): every elementary cycle among the known packages is
\* returned, from some starting point.
C3_EveryCycleReturned ==
    pc = "done" => \A c \in ElementaryCycles : \E r \in Rotations(c) : r \in cycles

\* C3 (amended): for every elementary cycle among the known packages the
\* returned set holds a cycle among packages that are mutually reachable with
\* that cycle's packages (at least one cycle of each strongly connected
\* component that has one), not necessarily that cycle itself.
C3_EveryComponentReported ==
    pc = "done" =>
        \A c \in ElementaryCycles :
            \E t \in cycles : IsElementaryCycle(t) /\ Range(t) \subseteq Component(c[1])

C3_Witness ==
    /\ pc = "done"
    /\ \E c \in ElementaryCycles : \A r \in Rotations(c) : r \notin cycles

\* C8: the returned set is empty if the graph has no cycle and non-empty if
\* it has one (a self-dependency included), whatever the order of the keys and
\* of the dependency lists.
C8_EmptyIffAcyclic ==
    pc = "done" => (cycles = {} <=> ElementaryCycles = {})

C8_Witness ==
    /\ pc = "done"
    /\ cycles # {}
    /\ \E c \in ElementaryCycles : Len(c) = 1
    /\ \E c \in ElementaryCycles : Len(c) > 1
    /\ Cardinality(cycles) < Cardinality(DOMAIN graph)

\* C9: every tuple of cycles is an elementary cycle of the graph, and
\* throughout the search rec_stack is the set of names on path and path holds
\* no name twice.
C9_CyclesGenuine ==
    /\ \A t \in cycles : IsElementaryCycle(t)
    /\ rec_stack = Range(path)
    /\ \A i, j \in 1..Len(path) : i # j => path[i] # path[j]

C9_Witness ==
    /\ pc = "dfs"
    /\ Len(path) = 3
    /\ \E t \in cycles : Len(t) = 2 /\ t[1] # path[1]

-----------------------------------------------------------------------------
(* parse_package_dependencies *)

\* Python: s[i:]
From(s, i) == SubSeq(s, i, Len(s))

\* Python: s.split(sep) for a one-character sep
RECURSIVE Split(_, _)
Split(s, sep) ==
    IF \A i \in 1..Len(s) : s[i] # sep THEN << s >>
    ELSE LET i == CHOOSE x \in 1..Len(s) :
                      s[x] = sep /\ \A y \in 1..(x - 1) : s[y] # sep
         IN  << SubSeq(s, 1, i - 1) >> \o Split(From(s, i + 1), sep)

\* Python: s.split(sep, 1)[1] for an s that contains sep
AfterFirst(s, sep) ==
    LET i == CHOOSE x \in 1..Len(s) :
                 MatchAt(sep, s, x) /\ \A y \in 1..(x - 1) : ~MatchAt(sep, s, y)
    IN  From(s, i + Len(sep))

IsSpace(c) == c \in {" ", "\t"}

\* Python: s.strip()
RECURSIVE Strip(_)
Strip(s) ==
    IF s = << >> THEN s
    ELSE IF IsSpace(s[1]) THEN Strip(Tail(s))
    ELSE IF IsSpace(s[Len(s)]) THEN Strip(SubSeq(s, 1, Len(s) - 1))
    ELSE s

\* Python: re.sub(r'\([^)]*\)', '', s)
RECURSIVE RemoveParens(_)
RemoveParens(s) ==
    IF s = << >> THEN s
    ELSE IF s[1] = "(" /\ \E j \in 2..Len(s) : s[j] = ")"
      THEN LET j == CHOOSE x \in 2..Len(s) :
                        s[x] = ")" /\ \A y \in 2..(x - 1) : s[y] # ")"
           IN  RemoveParens(From(s, j + 1))
      ELSE << s[1] >> \o RemoveParens(Tail(s))

\* lines 121-125: one entry of the Depends list, normalised
Normalise(dep) == Strip(Split(Strip(RemoveParens(Strip(dep))), "|")[1])

\* lines 119-127: the dependencies of a Depends value
RECURSIVE Dependencies(_)
Dependencies(entries) ==
    IF entries = << >> THEN << >>
    ELSE LET dep == Normalise(Head(entries))
         IN  (IF dep # << >> THEN << dep >> ELSE << >>) \o Dependencies(Tail(entries))

PackageField == << "P", "a", "c", "k", "a", "g", "e", ":", " " >>

DependsField == << "D", "e", "p", "e", "n", "d", "s", ":", " " >>

\* the value of a field line: line.split(': ', 1)[1].strip()
Value(line) == Strip(AfterFirst(line, << ":", " " >>))

\* d with d[key] = value
Assign(d, key, value) ==
    [ x \in DOMAIN d \cup {key} |-> IF x = key THEN value ELSE d[x] ]

\* the name of an earlier Package line kept
SetPackage_KeepFirst(info, line) ==
    IF "Package" \in DOMAIN info THEN info ELSE Assign(info, "Package", Value(line))

\* line 115
SetPackage(info, line) == Assign(info, "Package", Value(line))

\* lines 117-128
SetDepends(info, line) ==
    Assign(info, "Depends", Dependencies(Split(Value(line), ",")))

\* the lines blocks are made of:
\*   "Package: a", "Package: b ", "Package: a: b", " Package: a", "Version: 1",
\*   "Depends: a (>= 1) | b, c", "Depends: , (a)b)|"
MenuLines ==
    { PackageField \o << "a" >>,
      PackageField \o << "b", " " >>,
      PackageField \o << "a", ":", " ", "b" >>,
      << " " >> \o PackageField \o << "a" >>,
      << "V", "e", "r", "s", "i", "o", "n", ":", " ", "1" >>,
      DependsField \o << "a", " ", "(", ">", "=", " ", "1", ")", " ", "|", " ", "b", ",", " ", "c" >>,
      DependsField \o << ",", " ", "(", "a", ")", "b", ")", "|" >> }

\* Python: '\n'.join(ls)
RECURSIVE Join(_)
Join(ls) ==
    IF ls = << >> THEN << >>
    ELSE IF Len(ls) = 1 THEN ls[1]
    ELSE ls[1] \o << "\n" >> \o Join(Tail(ls))

Blocks == { Join(ls) : ls \in UNION { [1..n -> MenuLines] : n \in 0..MaxLines } }

ParseInit ==
    /\ block \in Blocks
    /\ lines = << >>
    /\ li = 0
    /\ package_info = EmptyMap
    /\ pc = "split"
    /\ graph = EmptyMap /\ visited = {} /\ stack = << >>
    /\ start_package = << >> /\ max_depth = 0 /\ filter_substring = << >>
    /\ result = EmptyMap /\ writes = << >>
    /\ order = << >> /\ k = 0 /\ rec_stack = {} /\ path = << >> /\ cycles = {}

\* lines 110-111
SplitBlock ==
    /\ pc = "split"
    /\ package_info' = EmptyMap
    /\ lines' = Split(block, "\n")
    /\ li' = 1
    /\ pc' = "lines"
    /\ UNCHANGED << graph, visited, stack, block >>
    /\ UNCHANGED closureVars /\ UNCHANGED cycleVars

\* one iteration of the for loop of lines 113-128
ParseLine ==
    /\ pc = "lines"
    /\ li <= Len(lines)
    /\ package_info' =
          IF StartsWith(lines[li], PackageField) THEN SetPackage(package_info, lines[li])
          ELSE IF StartsWith(lines[li], DependsField) THEN SetDepends(package_info, lines[li])
          ELSE package_info
    /\ li' = li + 1
    /\ UNCHANGED << graph, visited, stack, block, lines, pc >>
    /\ UNCHANGED closureVars /\ UNCHANGED cycleVars

\* line 130
ReturnInfo ==
    /\ pc = "lines"
    /\ li > Len(lines)
    /\ pc' = "done"
    /\ UNCHANGED << graph, visited, stack >>
    /\ UNCHANGED parseVars /\ UNCHANGED closureVars /\ UNCHANGED cycleVars

ParseNext == SplitBlock \/ ParseLine \/ ReturnInfo

SpecParse == ParseInit /\ [][ParseNext]_vars

-----------------------------------------------------------------------------
(* Properties of parse_package_dependencies *)

\* the places of the `Package: ` lines of the block
PackageLines ==
    { i \in 1..Len(Split(block, "\n")) : StartsWith(Split(block, "\n")[i], PackageField) }

First(S) == CHOOSE i \in S : \A j \in S : i <= j

Last(S) == CHOOSE i \in S : \A j \in S : j <= i

NameAt(i) == Value(Split(block, "\n")[i])

\* C7 (as claimed): of several `Package: ` lines the first gives the name.
C7_FirstPackageLineWins ==
    (pc = "done" /\ Cardinality(PackageLines) > 1)
        => ("Package" \in DOMAIN package_info
            /\ package_info["Package"] = NameAt(First(PackageLines)))

\* C7 (amended): of several `Package: ` lines of one block the last gives the
\* returned name (last match wins), whatever the earlier ones say.
C7_LastPackageLineWins ==
    (pc = "done" /\ Cardinality(PackageLines) > 1)
        => ("Package" \in DOMAIN package_info
            /\ package_info["Package"] = NameAt(Last(PackageLines)))

C7_Witness ==
    /\ pc = "done"
    /\ Cardinality(PackageLines) > 1
    /\ NameAt(First(PackageLines)) # NameAt(Last(PackageLines))

====
